---- MODULE Spec2Model ----
(***************************************************************************)
(* Model of src/src/learning/ml/python/ranking_model.py: one RankingModel  *)
(* instance (model_str, weights), the LP reduction of class LP, and the    *)
(* calls made on the instance.  The caller's current arguments are the     *)
(* variables X, pairs and group_ids; ret is the outcome of the last call   *)
(* (its return value or the exception it raised) and prob is the reduced   *)
(* training problem the last fit built (the locals data / prob); fitted    *)
(* records the arguments of the last fit that assigned self.weights.       *)
(*                                                                         *)
(* Numbers are integers.  Weight vectors range over the integer lattice    *)
(* -WMax..WMax: the external solvers (CBC behind PuLP, LinearSVC) are      *)
(* modelled as returning any lattice point that minimises the objective    *)
(* the code hands them.  A float quotient a / b is the pair (num, den).    *)
(***************************************************************************)
EXTENDS Integers, Sequences, FiniteSets, TLC

VARIABLES model_str, weights, X, pairs, group_ids, ret, prob, fitted

vars == <<model_str, weights, X, pairs, group_ids, ret, prob, fitted>>

(* ------------------------------ bounds -------------------------------- *)

\* longest judgment list the caller passes
MaxPairs == 2
\* weight lattice: every weight is in -WMax..WMax
WMax == 1

(* ------------------------- program constants -------------------------- *)

\* LP.fit(..., C=10, ...)
C == 10
\* LinearSVC(C=1)
SVC_C == 1
\* predict: np.array([1000000.0]) for a group never seen in training
UNSEEN_SCORE == 1000000
\* MOCK_GROUP_ID = 0
MOCK_GROUP_ID == 0
\* options=["RandomS 2024"]
RandomS == 2024

(* ----------------------------- the inputs ----------------------------- *)

\* Feature matrices: rows 0..2, two features each.
ExampleX == << <<1, 0>>, <<0, 1>>, <<2, 0>> >>
TwinX == << <<1, 0>>, <<1, 0>>, <<0, 1>> >>
Xs == {ExampleX, TwinX}

\* group_ids is None, or one group id per row
NoGroups == [given |-> FALSE, ids |-> <<>>]
Groups(ids) == [given |-> TRUE, ids |-> ids]
GroupIdss == {NoGroups, Groups(<<0, 1, 0>>)}

\* Judgments (i, j, relation, importance).
Judgments ==
    { <<0, 1, 1, 1>>, <<1, 0, 0, 2>>, <<0, 2, 1, 1>>, <<2, 0, 0, 1>>,
      <<1, 1, 1, 1>>, <<0, 1, 0, 0>> }

PairLists == UNION {[1..n -> Judgments] : n \in 0..MaxPairs}

\* the datasets the caller switches to between calls
Workloads ==
    { [X |-> ExampleX, pairs |-> << <<0, 1, 1, 1>> >>, group_ids |-> NoGroups],
      [X |-> ExampleX, pairs |-> << <<1, 0, 0, 2>> >>, group_ids |-> Groups(<<0, 0, 1>>)],
      [X |-> TwinX, pairs |-> << <<0, 1, 1, 1>> >>, group_ids |-> Groups(<<2, 2, 2>>)],
      [X |-> TwinX, pairs |-> <<>>, group_ids |-> NoGroups],
      [X |-> ExampleX, pairs |-> << <<3, 0, 1, 1>> >>, group_ids |-> NoGroups],
      [X |-> ExampleX, pairs |-> << <<-1, 0, 1, 1>> >>, group_ids |-> Groups(<<0, 0, 1>>)] }

\* strategy strings given to the constructor
ModelStrs == {"ranksvm", "lp", "lambdamart", "gbdt"}

\* group ids given to predict: None or an integer
NoGid == [some |-> FALSE, id |-> 0]
Gid(g) == [some |-> TRUE, id |-> g]
PredictGids == {NoGid, Gid(0), Gid(3)}

\* values uuid4() returns
UUIDs == {"u1", "u2"}

(* ------------------------------ helpers ------------------------------- *)

Abs(a) == IF a < 0 THEN -a ELSE a

Max(a, b) == IF a < b THEN b ELSE a

RECURSIVE SumSeq(_)
SumSeq(s) == IF Len(s) = 0 THEN 0 ELSE Head(s) + SumSeq(Tail(s))

\* np.dot of two vectors
Dot(x, w) == SumSeq([k \in 1..Len(x) |-> x[k] * w[k]])

\* Python indexing s[i]: 0-based, a negative i counts from the end
InRange(s, i) == i >= -Len(s) /\ i < Len(s)
At(s, i) == IF i >= 0 THEN s[i + 1] ELSE s[Len(s) + i + 1]

\* group_ids[i] if group_ids is not None else None
GroupArg(gids, i) == IF gids.given THEN Gid(At(gids.ids, i)) ELSE NoGid

(* ------------------------- the weight artifact ------------------------ *)

\* self.weights: absent before the first fit; a numpy array (kept under
\* MOCK_GROUP_ID) or a dict group id -> array; none means every entry is
\* None (varValue of a variable the solver did not set).
NoWeights == [kind |-> "unset", none |-> FALSE, w |-> <<>>]
ArrayWeights(v) == [kind |-> "array", none |-> FALSE, w |-> (MOCK_GROUP_ID :> v)]
DictWeights(f) == [kind |-> "dict", none |-> FALSE, w |-> f]

(* ------------------------------ predict ------------------------------- *)

Raise(e) == [status |-> e, num |-> 0, den |-> 1]
Return(n) == [status |-> "ok", num |-> n, den |-> 1]

\* the dot product returned without the negation
DotScore_unnegated(wt, x, g) ==
    IF wt.none THEN Raise("TypeError") ELSE Return(Dot(x, wt.w[g]))

DotScore(wt, x, g) ==
    IF wt.none THEN Raise("TypeError") ELSE Return(-Dot(x, wt.w[g]))

\* predict looking the group id up without the membership test
predict_result_keyerror(ms, wt, x, gid) ==
    IF ms = "ranksvm" \/ ms = "lp"
    THEN IF wt.kind = "unset" THEN Raise("AttributeError")
         ELSE IF wt.kind = "dict"
         THEN IF ~gid.some \/ gid.id \notin DOMAIN wt.w
              THEN Raise("KeyError")
              ELSE DotScore(wt, x, gid.id)
         ELSE DotScore(wt, x, MOCK_GROUP_ID)
    ELSE Raise("ValueError")

predict_result(ms, wt, x, gid) ==
    IF ms = "ranksvm" \/ ms = "lp"
    THEN IF wt.kind = "unset" THEN Raise("AttributeError")
         ELSE IF wt.kind = "dict"
         THEN IF ~gid.some \/ gid.id \notin DOMAIN wt.w
              THEN Return(UNSEEN_SCORE)
              ELSE DotScore(wt, x, gid.id)
         ELSE DotScore(wt, x, MOCK_GROUP_ID)
    ELSE Raise("ValueError")

(* ----------------------------- kendall_tau ---------------------------- *)

\* kendall_tau_body scoring row j under the group id of row i
kendall_tau_body_group_of_i(ms, wt, x, gids, jd, acc) ==
    LET i == jd[1]
        j == jd[2]
        relation == jd[3]
        importance == jd[4]
    IN  IF ~InRange(x, i) \/ ~InRange(x, j)
        THEN [status |-> "IndexError", acc |-> acc]
        ELSE IF At(x, i) = At(x, j)
        THEN [status |-> "ok", acc |-> acc]
        ELSE LET i_heuristic == predict_result(ms, wt, At(x, i), GroupArg(gids, i))
                 j_heuristic == predict_result(ms, wt, At(x, j), GroupArg(gids, i))
                 diff == i_heuristic.num - j_heuristic.num
             IN  IF i_heuristic.status # "ok"
                 THEN [status |-> i_heuristic.status, acc |-> acc]
                 ELSE IF j_heuristic.status # "ok"
                 THEN [status |-> j_heuristic.status, acc |-> acc]
                 ELSE IF relation < 0
                 THEN [status |-> "AssertionError", acc |-> acc]
                 ELSE IF (relation > 0 /\ diff < 0) \/ (relation = 0 /\ diff <= 0)
                 THEN [status |-> "ok",
                       acc |-> [acc EXCEPT !.concordant_pairs = @ + importance,
                                           !.total_pairs = @ + importance]]
                 ELSE [status |-> "ok",
                       acc |-> [acc EXCEPT !.discordant_pairs = @ + importance,
                                           !.total_pairs = @ + importance]]

\* kendall_tau_body without the assertion relation >= 0
kendall_tau_body_no_assert(ms, wt, x, gids, jd, acc) ==
    LET i == jd[1]
        j == jd[2]
        relation == jd[3]
        importance == jd[4]
    IN  IF ~InRange(x, i) \/ ~InRange(x, j)
        THEN [status |-> "IndexError", acc |-> acc]
        ELSE IF At(x, i) = At(x, j)
        THEN [status |-> "ok", acc |-> acc]
        ELSE LET i_heuristic == predict_result(ms, wt, At(x, i), GroupArg(gids, i))
                 j_heuristic == predict_result(ms, wt, At(x, j), GroupArg(gids, j))
                 diff == i_heuristic.num - j_heuristic.num
             IN  IF i_heuristic.status # "ok"
                 THEN [status |-> i_heuristic.status, acc |-> acc]
                 ELSE IF j_heuristic.status # "ok"
                 THEN [status |-> j_heuristic.status, acc |-> acc]
                 ELSE IF (relation > 0 /\ diff < 0) \/ (relation = 0 /\ diff <= 0)
                 THEN [status |-> "ok",
                       acc |-> [acc EXCEPT !.concordant_pairs = @ + importance,
                                           !.total_pairs = @ + importance]]
                 ELSE [status |-> "ok",
                       acc |-> [acc EXCEPT !.discordant_pairs = @ + importance,
                                           !.total_pairs = @ + importance]]

\* One pass of the loop body for judgment jd with the counters acc; the
\* result carries status "ok" and the new counters, or the exception.
kendall_tau_body(ms, wt, x, gids, jd, acc) ==
    LET i == jd[1]
        j == jd[2]
        relation == jd[3]
        importance == jd[4]
    IN  IF ~InRange(x, i) \/ ~InRange(x, j)
        THEN [status |-> "IndexError", acc |-> acc]
        ELSE IF At(x, i) = At(x, j)
        THEN [status |-> "ok", acc |-> acc]
        ELSE LET i_heuristic == predict_result(ms, wt, At(x, i), GroupArg(gids, i))
                 j_heuristic == predict_result(ms, wt, At(x, j), GroupArg(gids, j))
                 diff == i_heuristic.num - j_heuristic.num
             IN  IF i_heuristic.status # "ok"
                 THEN [status |-> i_heuristic.status, acc |-> acc]
                 ELSE IF j_heuristic.status # "ok"
                 THEN [status |-> j_heuristic.status, acc |-> acc]
                 ELSE IF relation < 0
                 THEN [status |-> "AssertionError", acc |-> acc]
                 ELSE IF (relation > 0 /\ diff < 0) \/ (relation = 0 /\ diff <= 0)
                 THEN [status |-> "ok",
                       acc |-> [acc EXCEPT !.concordant_pairs = @ + importance,
                                           !.total_pairs = @ + importance]]
                 ELSE [status |-> "ok",
                       acc |-> [acc EXCEPT !.discordant_pairs = @ + importance,
                                           !.total_pairs = @ + importance]]

RECURSIVE kendall_tau_loop(_, _, _, _, _, _)
kendall_tau_loop(ms, wt, x, gids, ps, acc) ==
    IF Len(ps) = 0
    THEN IF acc.total_pairs = 0
         THEN Raise("ZeroDivisionError")
         ELSE [status |-> "ok",
               num |-> acc.concordant_pairs - acc.discordant_pairs,
               den |-> acc.total_pairs]
    ELSE LET step == kendall_tau_body(ms, wt, x, gids, Head(ps), acc)
         IN  IF step.status # "ok"
             THEN Raise(step.status)
             ELSE kendall_tau_loop(ms, wt, x, gids, Tail(ps), step.acc)

kendall_tau_result(ms, wt, x, ps, gids) ==
    kendall_tau_loop(ms, wt, x, gids, ps,
        [concordant_pairs |-> 0, discordant_pairs |-> 0, total_pairs |-> 0])

(* ------------------------- _to_classification ------------------------- *)

VecSub(a, b) == [k \in 1..Len(a) |-> a[k] - b[k]]

NoData == [X_new |-> <<>>, y_new |-> <<>>, sample_weight |-> <<>>]

\* _to_classification keeping equal rows with sample weight 0
to_classification_body_zero_weight(x, jd, acc) ==
    LET i == jd[1]
        j == jd[2]
        importance == IF At(x, i) = At(x, j) THEN 0 ELSE jd[4]
    IN  [X_new |-> acc.X_new \o <<VecSub(At(x, i), At(x, j)), VecSub(At(x, j), At(x, i))>>,
         y_new |-> acc.y_new \o <<1, -1>>,
         sample_weight |-> acc.sample_weight \o <<importance, importance>>]

\* loop body: skip equal rows, else append the two opposite examples
to_classification_body(x, jd, acc) ==
    LET i == jd[1]
        j == jd[2]
        importance == jd[4]
    IN  IF At(x, i) = At(x, j)
        THEN acc
        ELSE [X_new |-> acc.X_new \o <<VecSub(At(x, i), At(x, j)), VecSub(At(x, j), At(x, i))>>,
              y_new |-> acc.y_new \o <<1, -1>>,
              sample_weight |-> acc.sample_weight \o <<importance, importance>>]

RECURSIVE to_classification_loop(_, _, _)
to_classification_loop(x, ps, acc) ==
    IF Len(ps) = 0
    THEN [status |-> "ok", data |-> acc]
    ELSE IF ~InRange(x, Head(ps)[1]) \/ ~InRange(x, Head(ps)[2])
    THEN [status |-> "IndexError", data |-> NoData]
    ELSE to_classification_loop(x, Tail(ps), to_classification_body(x, Head(ps), acc))

to_classification(x, ps) == to_classification_loop(x, ps, NoData)

(* --------------------------- _train_ranksvm --------------------------- *)

\* all weight vectors of the lattice, D = X.shape[1] entries each
Vectors(D) == [1..D -> -WMax..WMax]

MinOf(S) == CHOOSE m \in S : \A n \in S : m <= n

Square(a) == a * a

\* LinearSVC(penalty="l1", loss="squared_hinge", fit_intercept=False, C=1):
\* the L1 norm plus C times the weighted squared hinge losses
SVCObjective(data, w) ==
    SumSeq([k \in 1..Len(w) |-> Abs(w[k])])
    + SVC_C * SumSeq([n \in 1..Len(data.X_new) |->
          data.sample_weight[n]
          * Square(Max(0, 1 - data.y_new[n] * Dot(data.X_new[n], w)))])

\* model.coef_[0] after model.fit: any minimiser on the lattice
SVCCoefs(data, D) ==
    LET costs == {<<w, SVCObjective(data, w)>> : w \in Vectors(D)}
        best == MinOf({c[2] : c \in costs})
    IN  {c[1] : c \in {d \in costs : d[2] = best}}

(* ------------------------------- LP.fit ------------------------------- *)

RECURSIVE SortedSeq(_)
SortedSeq(S) ==
    IF S = {} THEN <<>> ELSE <<MinOf(S)>> \o SortedSeq(S \ {MinOf(S)})

\* group_ids, replaced by [MOCK_GROUP_ID] * X.shape[0] when None
EffectiveGroupIds(x, gids) ==
    IF gids.given THEN gids.ids ELSE [r \in 1..Len(x) |-> MOCK_GROUP_ID]

\* set(group_ids), in iteration order
GroupSet(ids) == {ids[r] : r \in 1..Len(ids)}
GroupOrder(ids) == SortedSeq(GroupSet(ids))

\* variable names: w(g)(k), abs_w(g)(k), z{i}_{j} and z{i}_{j}_{uuid}
WName(g, k) == <<"w", g, k, "">>
AbsName(g, k) == <<"abs_w", g, k, "">>
\* the slack of a repeated (i, j) named like the first one
SlackName_no_uuid(i, j, u) == <<"z", i, j, "">>

SlackName(i, j, u) == <<"z", i, j, u>>

\* LpVariable(name, lowBound=...): lowBound is None unless given
NoBound == [some |-> FALSE, v |-> 0]
Bound(v) == [some |-> TRUE, v |-> v]
LpVariable(name, lowBound) == [name |-> name, lowBound |-> lowBound]

\* the variables and constraints of one group, lines 154-168
GroupVariables(g, D) ==
    [k \in 1..D |-> LpVariable(WName(g, k - 1), NoBound)]
    \o [k \in 1..D |-> LpVariable(AbsName(g, k - 1), Bound(0))]
GroupConstraints(g, D) ==
    [n \in 1..(2 * D) |->
        [kind |-> "abs", g |-> g, k |-> (n - 1) \div 2,
         sign |-> IF n % 2 = 1 THEN 1 ELSE -1]]

RECURSIVE Flatten(_)
Flatten(ss) == IF Len(ss) = 0 THEN <<>> ELSE Head(ss) \o Flatten(Tail(ss))

\* the judgment loop body, lines 172-193; uuids are the values the coming
\* uuid4() calls return
LP_fit_body(x, ids, jd, acc) ==
    LET i == jd[1]
        j == jd[2]
        relation == jd[3]
        importance == jd[4]
        dup == <<i, j>> \in acc.seen_pairs
        slack == IF dup THEN SlackName(i, j, Head(acc.uuids)) ELSE SlackName(i, j, "")
    IN  IF At(x, i) = At(x, j)
        THEN acc
        ELSE [variables |-> Append(acc.variables, LpVariable(slack, Bound(0))),
              slacks |-> Append(acc.slacks, <<slack, importance>>),
              constraints |-> Append(acc.constraints,
                  [kind |-> "rank", gi |-> At(ids, i), xi |-> At(x, i),
                   gj |-> At(ids, j), xj |-> At(x, j),
                   relation |-> relation, slack |-> slack]),
              seen_pairs |-> acc.seen_pairs \cup {<<i, j>>},
              uuids |-> IF dup THEN Tail(acc.uuids) ELSE acc.uuids]

RECURSIVE LP_fit_loop(_, _, _, _)
LP_fit_loop(x, ids, ps, acc) ==
    IF Len(ps) = 0
    THEN [status |-> "ok", acc |-> acc]
    ELSE IF ~InRange(x, Head(ps)[1]) \/ ~InRange(x, Head(ps)[2])
    THEN [status |-> "IndexError", acc |-> acc]
    ELSE LP_fit_loop(x, ids, Tail(ps), LP_fit_body(x, ids, Head(ps), acc))

NoProb == [kind |-> "none"]

\* the LpProblem LP.fit hands to the solver, lines 144-205
LP_build(x, ps, gids, uuids) ==
    LET ids == EffectiveGroupIds(x, gids)
        order == GroupOrder(ids)
        D == Len(x[1])
        start == [variables |-> Flatten([n \in 1..Len(order) |-> GroupVariables(order[n], D)]),
                  slacks |-> <<>>,
                  constraints |-> Flatten([n \in 1..Len(order) |-> GroupConstraints(order[n], D)]),
                  seen_pairs |-> {},
                  uuids |-> uuids]
        loop == LP_fit_loop(x, ids, ps, start)
    IN  IF loop.status # "ok"
        THEN [status |-> loop.status, prob |-> NoProb]
        ELSE [status |-> "ok",
              prob |-> [kind |-> "lp",
                        variables |-> loop.acc.variables,
                        constraints |-> loop.acc.constraints,
                        objective |->
                            [C |-> C,
                             slacks |-> loop.acc.slacks,
                             abs_weights |-> Flatten([k \in 1..D |->
                                 [n \in 1..Len(order) |-> AbsName(order[n], k - 1)]])],
                        groups |-> GroupSet(ids),
                        D |-> D,
                        seed |-> RandomS]]

(* ------------------------------ the solver ---------------------------- *)

RankConstraints(p) == SelectSeq(p.constraints, LAMBDA c : c.kind = "rank")

\* left-hand side of a judgment's constraint under the weights wa
Margin(c, wa) == Dot(c.xi, wa[c.gi]) - Dot(c.xj, wa[c.gj])

\* the judgment constraint written with + slack on the right-hand side
Satisfied_plus_slack(c, val) ==
    IF c.kind = "abs"
    THEN val[AbsName(c.g, c.k)] >= c.sign * val[WName(c.g, c.k)]
    ELSE SumSeq([k \in 1..Len(c.xi) |->
             val[WName(c.gi, k - 1)] * c.xi[k] - val[WName(c.gj, k - 1)] * c.xj[k]])
         >= c.relation + val[c.slack]

\* whether the values val (variable name -> number) meet the constraint c:
\* abs_w >= w and abs_w >= -w (lines 167-168), or the judgment constraint
\* lpSum(w[gi][k] * X[i][k] - w[gj][k] * X[j][k]) >= relation - slack
Satisfied(c, val) ==
    IF c.kind = "abs"
    THEN val[AbsName(c.g, c.k)] >= c.sign * val[WName(c.g, c.k)]
    ELSE SumSeq([k \in 1..Len(c.xi) |->
             val[WName(c.gi, k - 1)] * c.xi[k] - val[WName(c.gj, k - 1)] * c.xj[k]])
         >= c.relation - val[c.slack]

\* whether val keeps the variable v at or above its lower bound
WithinBounds(v, val) == v.lowBound.some => val[v.name] >= v.lowBound.v

\* whether val is a feasible point of the problem p
Feasible(p, val) ==
    /\ \A n \in 1..Len(p.constraints) : Satisfied(p.constraints[n], val)
    /\ \A n \in 1..Len(p.variables) : WithinBounds(p.variables[n], val)

\* least value the slack variable z can take under the weights wa, given
\* the judgment constraints rc
MinSlack(rc, wa, z) ==
    LET need == {rc[n].relation - Margin(rc[n], wa) :
                    n \in {m \in 1..Len(rc) : rc[m].slack = z}}
    IN  IF \E v \in need : v > 0 THEN -MinOf({-v : v \in need}) ELSE 0

\* the objective at the weights wa, slack and abs_w variables at their
\* least feasible values
LPObjective(p, rc, wa) ==
    p.objective.C
      * SumSeq([n \in 1..Len(p.objective.slacks) |->
            p.objective.slacks[n][2] * MinSlack(rc, wa, p.objective.slacks[n][1])])
    + SumSeq([n \in 1..Len(p.objective.abs_weights) |->
            Abs(wa[p.objective.abs_weights[n][2]][p.objective.abs_weights[n][3] + 1])])

\* whether w(g)(k - 1) has a nonzero coefficient in some judgment constraint
Active(rc, g, k) ==
    \E n \in 1..Len(rc) :
        \/ rc[n].gi = g /\ rc[n].gj = g /\ rc[n].xi[k] # rc[n].xj[k]
        \/ rc[n].gi = g /\ rc[n].gj # g /\ rc[n].xi[k] # 0
        \/ rc[n].gj = g /\ rc[n].gi # g /\ rc[n].xj[k] # 0

\* the candidate weights: a weight outside every judgment constraint only
\* adds its absolute value to the objective, so it is 0 in every optimum
Assignments(p, rc) ==
    LET free == [g \in p.groups |-> {v \in Vectors(p.D) :
                     \A k \in 1..p.D : Active(rc, g, k) \/ v[k] = 0}]
    IN  {wa \in [p.groups -> Vectors(p.D)] : \A g \in p.groups : wa[g] \in free[g]}

LPOptimal(p) ==
    LET rc == RankConstraints(p)
        costs == {<<wa, LPObjective(p, rc, wa)>> : wa \in Assignments(p, rc)}
        best == MinOf({c[2] : c \in costs})
    IN  {c[1] : c \in {d \in costs : d[2] = best}}

\* prob.solve(solver): an optimal assignment, no assignment at all (every
\* varValue stays None), or PulpSolverError when the CBC process fails
SolveOutcomes(p) ==
    {[status |-> "Optimal", values |-> wa] : wa \in LPOptimal(p)}
    \cup {[status |-> "Not Solved", values |-> [g \in p.groups |-> [k \in 1..p.D |-> 0]]]}
    \cup {[status |-> "PulpSolverError", values |-> [g \in p.groups |-> [k \in 1..p.D |-> 0]]]}

\* LP_weights reading the abs_w variables instead of the w variables
LP_weights_abs(gids, out) ==
    [kind |-> IF gids.given THEN "dict" ELSE "array",
     none |-> out.status # "Optimal",
     w |-> [g \in DOMAIN out.values |->
               [k \in 1..Len(out.values[g]) |-> Abs(out.values[g][k])]]]

\* lines 210-216: the artifact read off the variables
LP_weights(gids, out) ==
    [kind |-> IF gids.given THEN "dict" ELSE "array",
     none |-> out.status # "Optimal",
     w |-> out.values]

(* ------------------------------- states ------------------------------- *)

\* model_str before an instance exists
NoInstance == ""

NoFit == [done |-> FALSE, X |-> <<>>, pairs |-> <<>>, group_ids |-> NoGroups]

Dataset == [X |-> X, pairs |-> pairs, group_ids |-> group_ids]

\* the outcome of a call: the value returned or the exception raised
Ret(op, r) ==
    [op |-> op, status |-> r.status, num |-> r.num, den |-> r.den,
     arg |-> "", row |-> 0, gid |-> NoGid, art |-> NoWeights]

\* the number of uuid4() calls LP.fit makes: one per judgment that is not
\* skipped and whose (i, j) was seen before
RECURSIVE UuidCalls(_, _, _)
UuidCalls(x, ps, seen) ==
    IF Len(ps) = 0 THEN 0
    ELSE LET i == Head(ps)[1]
             j == Head(ps)[2]
         IN  IF ~InRange(x, i) \/ ~InRange(x, j) THEN 0
             ELSE IF At(x, i) = At(x, j) THEN UuidCalls(x, Tail(ps), seen)
             ELSE (IF <<i, j>> \in seen THEN 1 ELSE 0)
                  + UuidCalls(x, Tail(ps), seen \cup {<<i, j>>})

\* the values n uuid4() calls return, pairwise different
UuidDraws(n) ==
    {us \in [1..n -> UUIDs] : \A a, b \in 1..n : a # b => us[a] # us[b]}

\* no instance yet, the caller holding one of the datasets ds
Start(ds) ==
    /\ model_str = NoInstance
    /\ weights = NoWeights
    /\ \E d \in ds :
          /\ X = d.X
          /\ pairs = d.pairs
          /\ group_ids = d.group_ids
    /\ ret = Ret("none", Return(0))
    /\ prob = NoProb
    /\ fitted = NoFit

Init == Start(Workloads)

InitTrain == Start([X : Xs, pairs : PairLists, group_ids : GroupIdss])

(* ------------------------------ __init__ ------------------------------ *)

\* __init__ still accepting "lambdamart"
init_status_lambdamart(s) ==
    IF s = "ranksvm" THEN "ok"
    ELSE IF s = "lp" THEN "ok"
    ELSE IF s = "lambdamart" THEN "ok"
    ELSE "ValueError"

init_status(s) ==
    IF s = "ranksvm" THEN "ok"
    ELSE IF s = "lp" THEN "ok"
    ELSE IF s = "lambdamart" THEN "ValueError"
    ELSE "ValueError"

init ==
    /\ model_str = NoInstance
    /\ \E s \in ModelStrs :
          /\ model_str' = IF init_status(s) = "ok" THEN s ELSE NoInstance
          /\ ret' = [Ret("init", [status |-> init_status(s), num |-> 0, den |-> 1])
                        EXCEPT !.arg = s]
    /\ UNCHANGED <<weights, X, pairs, group_ids, prob, fitted>>

(* -------------------------------- fit --------------------------------- *)

Kept(wt, e, p) == [status |-> e, weights |-> wt, prob |-> p, assigned |-> FALSE]
Assigned(wt, p) == [status |-> "ok", weights |-> wt, prob |-> p, assigned |-> TRUE]

\* model_str == "ranksvm": _to_classification, then _train_ranksvm
fit_ranksvm(wt, x, ps) ==
    LET r == to_classification(x, ps)
        p == [kind |-> "svc", data |-> r.data]
    IN  IF r.status # "ok" THEN {Kept(wt, r.status, NoProb)}
        ELSE IF Len(r.data.X_new) = 0 THEN {Kept(wt, "ValueError", p)}
        ELSE {Assigned(ArrayWeights(coef), p) : coef \in SVCCoefs(r.data, Len(x[1]))}

\* fit updating the dict it already holds instead of replacing it
fit_lp_update(wt, x, ps, gids, uuids) ==
    LET b == LP_build(x, ps, gids, uuids)
        Updated(new) ==
            IF wt.kind = "dict" /\ new.kind = "dict"
            THEN [new EXCEPT !.w = [g \in DOMAIN wt.w \cup DOMAIN new.w |->
                                       IF g \in DOMAIN new.w THEN new.w[g] ELSE wt.w[g]]]
            ELSE new
    IN  IF b.status # "ok" THEN {Kept(wt, b.status, NoProb)}
        ELSE {IF out.status = "PulpSolverError"
              THEN Kept(wt, out.status, b.prob)
              ELSE Assigned(Updated(LP_weights(gids, out)), b.prob) : out \in SolveOutcomes(b.prob)}

\* model_str == "lp": LP().fit, then self.weights = lp.weights
fit_lp(wt, x, ps, gids, uuids) ==
    LET b == LP_build(x, ps, gids, uuids)
    IN  IF b.status # "ok" THEN {Kept(wt, b.status, NoProb)}
        ELSE {IF out.status = "PulpSolverError"
              THEN Kept(wt, out.status, b.prob)
              ELSE Assigned(LP_weights(gids, out), b.prob) : out \in SolveOutcomes(b.prob)}

fit_outcomes(ms, wt, x, ps, gids, uuids) ==
    IF ms = "ranksvm" THEN fit_ranksvm(wt, x, ps)
    ELSE IF ms = "lp" THEN fit_lp(wt, x, ps, gids, uuids)
    ELSE {Kept(wt, "ValueError", NoProb)}

fit ==
    /\ model_str # NoInstance
    /\ \E uuids \in UuidDraws(IF model_str = "lp" THEN UuidCalls(X, pairs, {}) ELSE 0) :
       \E o \in fit_outcomes(model_str, weights, X, pairs, group_ids, uuids) :
          /\ weights' = o.weights
          /\ prob' = o.prob
          /\ ret' = Ret("fit", [status |-> o.status, num |-> 0, den |-> 1])
          /\ fitted' = IF o.assigned
                       THEN [done |-> TRUE, X |-> X, pairs |-> pairs, group_ids |-> group_ids]
                       ELSE fitted
    /\ UNCHANGED <<model_str, X, pairs, group_ids>>

(* ------------------- predict, get_weights, kendall_tau ----------------- *)

predict ==
    /\ model_str # NoInstance
    /\ \E row \in 0..(Len(X) - 1) :
       \E gid \in PredictGids :
          ret' = [Ret("predict", predict_result(model_str, weights, At(X, row), gid))
                     EXCEPT !.row = row, !.gid = gid]
    /\ UNCHANGED <<model_str, weights, X, pairs, group_ids, prob, fitted>>

get_weights ==
    /\ model_str # NoInstance
    /\ ret' = IF weights.kind = "unset"
              THEN Ret("get_weights", Raise("AttributeError"))
              ELSE [Ret("get_weights", Return(0)) EXCEPT !.art = weights]
    /\ UNCHANGED <<model_str, weights, X, pairs, group_ids, prob, fitted>>

kendall_tau ==
    /\ model_str # NoInstance
    /\ ret' = Ret("kendall_tau",
                  kendall_tau_result(model_str, weights, X, pairs, group_ids))
    /\ UNCHANGED <<model_str, weights, X, pairs, group_ids, prob, fitted>>

(* ------------------------------ the caller ---------------------------- *)

\* the caller moves on to another workload for its next call
Assemble ==
    /\ \E d \in Workloads \ {Dataset} :
          /\ X' = d.X
          /\ pairs' = d.pairs
          /\ group_ids' = d.group_ids
    /\ ret' = Ret("none", Return(0))
    /\ UNCHANGED <<model_str, weights, prob, fitted>>

\* one instance used by a caller that moves between the workloads
Next == init \/ fit \/ predict \/ get_weights \/ kendall_tau \/ Assemble

Spec == Init /\ [][Next]_vars

\* training runs: construct, fit and evaluate on one dataset, for every
\* dataset of the bounded input space
NextTrain == init \/ fit \/ kendall_tau

TrainSpec == InitTrain /\ [][NextTrain]_vars

(* ======================= properties of the code ======================= *)

\* judgment n of the current list, by field
JI(n) == pairs[n][1]
JJ(n) == pairs[n][2]
JRelation(n) == pairs[n][3]
JImportance(n) == pairs[n][4]

\* the judgments of the current list that are not skipped
NonDegenerate == {n \in 1..Len(pairs) : At(X, JI(n)) # At(X, JJ(n))}

\* what predict returns for row i of X under that row's own group id
ScoreOf(i) == predict_result(model_str, weights, At(X, i), GroupArg(group_ids, i)).num
Diff(n) == ScoreOf(JI(n)) - ScoreOf(JJ(n))

\* the summed importance of the judgments in S
ImportanceOf(S) == SumSeq([n \in 1..Len(pairs) |-> IF n \in S THEN JImportance(n) ELSE 0])

Evaluated == ret.op = "kendall_tau" /\ ret.status = "ok"

\* the last call returned the quotient num / den
Returned(num, den) == ret.den # 0 /\ den # 0 /\ ret.num * den = num * ret.den

(* ---- C1 ---- *)

\* C1 as stated: concordance skips the judgments with equal rows, counts a
\* judgment concordant when (relation > 0 and diff > 0) or (relation = 0 and
\* diff >= 0), diff = score(i) - score(j) of the returned scores, and returns
\* (concordant - discordant) / total importance.
C1_AsStated ==
    Evaluated =>
        LET conc == {n \in NonDegenerate :
                        \/ JRelation(n) > 0 /\ Diff(n) > 0
                        \/ JRelation(n) = 0 /\ Diff(n) >= 0}
        IN  Returned(ImportanceOf(conc) - ImportanceOf(NonDegenerate \ conc),
                     ImportanceOf(NonDegenerate))

\* C1, amended: kendall_tau skips the judgments with equal rows, counts a
\* judgment concordant when (relation > 0 and diff < 0) or (relation = 0 and
\* diff <= 0), where diff = predict(X[i]) - predict(X[j]), each row under
\* its own group id, and discordant otherwise; it returns
\* (concordant - discordant) / total importance of the judgments not skipped.
C1_KendallTau ==
    Evaluated =>
        LET conc == {n \in NonDegenerate :
                        \/ JRelation(n) > 0 /\ Diff(n) < 0
                        \/ JRelation(n) = 0 /\ Diff(n) <= 0}
        IN  /\ ret.num = ImportanceOf(conc) - ImportanceOf(NonDegenerate \ conc)
            /\ ret.den = ImportanceOf(NonDegenerate)

\* a grouped evaluation with one discordant judgment of importance 1 and
\* one concordant judgment of importance 2
C1_Witness ==
    /\ Evaluated
    /\ weights.kind = "dict"
    /\ \E n \in NonDegenerate : JRelation(n) > 0 /\ Diff(n) >= 0 /\ JImportance(n) = 1
    /\ \E n \in NonDegenerate : JRelation(n) = 0 /\ Diff(n) <= 0 /\ JImportance(n) = 2
    /\ ret.num = 1
    /\ ret.den = 3
(* ---- C2 ---- *)

AllInRange == \A n \in 1..Len(pairs) : InRange(X, JI(n)) /\ InRange(X, JJ(n))

\* the instance holds numeric weights a linear-program fit on the current
\* dataset produced
TrainedLP ==
    /\ fitted.done
    /\ fitted.X = X /\ fitted.pairs = pairs /\ fitted.group_ids = group_ids
    /\ model_str = "lp"
    /\ ~weights.none

\* the weight vector training used for row i
WeightOf(i) == weights.w[At(EffectiveGroupIds(X, group_ids), i)]

\* w[group(i)] . X[i] - w[group(j)] . X[j] >= relation
MetWithoutSlack(n) ==
    Dot(At(X, JI(n)), WeightOf(JI(n))) - Dot(At(X, JJ(n)), WeightOf(JJ(n))) >= JRelation(n)

\* C2: after a linear-program fit, every non-degenerate judgment whose
\* constraint holds with zero slack is counted concordant by kendall_tau on
\* the same data, so when all of them hold (and their importance is not 0)
\* kendall_tau returns 1; for X = [[1,0],[0,1],[2,0]] and the single
\* judgment (0,1,1,1.0), every optimal solution gives exactly 1.0.
C2_TrainedConcordant ==
    TrainedLP =>
        /\ \A n \in NonDegenerate :
              MetWithoutSlack(n) =>
                  LET step == kendall_tau_body(model_str, weights, X, group_ids, pairs[n],
                                  [concordant_pairs |-> 0, discordant_pairs |-> 0,
                                   total_pairs |-> 0])
                  IN  /\ step.status = "ok"
                      /\ step.acc.concordant_pairs = JImportance(n)
                      /\ step.acc.discordant_pairs = 0
        /\ (Evaluated /\ \A n \in NonDegenerate : MetWithoutSlack(n)) => ret.num = ret.den
        /\ (/\ ret.op = "kendall_tau"
            /\ X = ExampleX
            /\ pairs = << <<0, 1, 1, 1>> >>
            /\ ~group_ids.given)
           => ret.status = "ok" /\ ret.num = 1 /\ ret.den = 1

\* kendall_tau has returned 1.0 on the example after a linear-program fit
C2_Witness ==
    /\ TrainedLP
    /\ Evaluated
    /\ X = ExampleX
    /\ pairs = << <<0, 1, 1, 1>> >>
    /\ ~group_ids.given
    /\ MetWithoutSlack(1)
    /\ ret.num = 1
    /\ ret.den = 1

(* ---- C3 ---- *)

\* gid is not a key of the grouped artifact wt
UnseenGroup(wt, gid) == wt.kind = "dict" /\ (~gid.some \/ gid.id \notin DOMAIN wt.w)

\* C3: predict with a grouped artifact and a group id that is not one of
\* its keys returns the fixed value 1000000.0, raises nothing, and leaves
\* the artifact as it was.
C3_UnseenGroup ==
    [][(ret'.op = "predict" /\ UnseenGroup(weights, ret'.gid))
          => /\ ret'.status = "ok"
             /\ ret'.num = UNSEEN_SCORE
             /\ ret'.den = 1
             /\ weights' = weights]_vars

\* predict has returned for group 3, which no fit has seen
C3_Witness ==
    /\ ret.op = "predict"
    /\ UnseenGroup(weights, ret.gid)
    /\ ret.gid.some
    /\ ret.num = UNSEEN_SCORE

(* ---- C4 ---- *)

\* C4 as stated: kendall_tau on a list with no non-degenerate judgment, or
\* with total importance 0, raises EmptyInputError.
C4_AsStated ==
    (/\ ret.op = "kendall_tau"
     /\ AllInRange
     /\ ImportanceOf(NonDegenerate) = 0
     /\ ret.status \notin {"AttributeError", "TypeError"})
    => ret.status = "EmptyInputError"
(* ---- C5 ---- *)

InsertAt(s, pos, e) == SubSeq(s, 1, pos) \o <<e>> \o SubSeq(s, pos + 1, Len(s))

\* judgments between two rows of X with equal features
DegenerateJudgments ==
    {jd \in (0..(Len(X) - 1)) \X (0..(Len(X) - 1)) \X {0, 1} \X {2} :
        At(X, jd[1]) = At(X, jd[2])}

\* the reduced training problems a fit of strategy ms can build from the
\* judgment list ps: the classification data, or the linear program for
\* each choice of values uuid4() may return
ProblemsOf(ms, ps) ==
    IF ms = "ranksvm"
    THEN {[kind |-> "svc", data |-> to_classification(X, ps).data]}
    ELSE {LP_build(X, ps, group_ids, us).prob : us \in UuidDraws(UuidCalls(X, ps, {}))}

\* C5: inserting a judgment between rows with equal features at any
\* position of the judgment list leaves the reduced training problem (the
\* classification examples, labels and sample weights; the variables,
\* constraints and objective of the linear program) the same, so the
\* problem the fit built, and with it the artifact, is one the fit builds
\* from the longer list.
C5_DegenerateIgnored ==
    (ret.op = "fit" /\ prob.kind # "none") =>
        LET built == ProblemsOf(model_str, pairs)
        IN  \A jd \in DegenerateJudgments :
            \A pos \in 0..Len(pairs) :
                LET longer == ProblemsOf(model_str, InsertAt(pairs, pos, jd))
                IN  longer = built /\ prob \in longer

\* a fit has built its problem from a list that holds a degenerate and a
\* non-degenerate judgment
C5_Witness ==
    /\ ret.op = "fit"
    /\ ret.status = "ok"
    /\ Len(pairs) = 2
    /\ Cardinality(NonDegenerate) = 1
    /\ prob \in ProblemsOf(model_str, SelectSeq(pairs, LAMBDA jd : At(X, jd[1]) # At(X, jd[2])))
(* ---- C6 ---- *)

\* the artifacts a fit of strategy ms assigns when called with the dataset d
ArtifactsOf(ms, d) ==
    UNION {{o.weights : o \in {q \in fit_outcomes(ms, NoWeights, d.X, d.pairs, d.group_ids, us) :
                                  q.assigned}} :
           us \in UuidDraws(IF ms = "lp" THEN UuidCalls(d.X, d.pairs, {}) ELSE 0)}

\* C6: the artifact held is exactly one the most recent completed fit
\* produces from its own arguments (nothing of an earlier fit, no change by
\* predict, get_weights, kendall_tau or a fit that raised); get_weights
\* returns it; before the first completed fit there is no artifact and
\* predict, get_weights and kendall_tau fail.
C6_ArtifactOfLastFit ==
    /\ ~fitted.done =>
          /\ weights = NoWeights
          /\ ret.op \in {"predict", "get_weights"} => ret.status = "AttributeError"
          /\ ret.op = "kendall_tau" => ret.status # "ok"
    /\ fitted.done =>
          /\ weights \in ArtifactsOf(model_str, fitted)
          /\ ret.op = "get_weights" => ret.status = "ok" /\ ret.art = weights

\* a fit on another dataset has raised after a completed grouped fit
C6_Witness ==
    /\ fitted.done
    /\ weights.kind = "dict"
    /\ ret.op = "fit"
    /\ ret.status # "ok"
    /\ fitted.pairs # pairs
(* ---- C7 ---- *)

\* C7 as stated: constructing with margin-classifier ("ranksvm"),
\* linear-program ("lp") or boosted-ranker ("lambdamart") succeeds, and any
\* other strategy string fails with ConfigurationError.
C7_AsStated ==
    ret.op = "init" =>
        IF ret.arg \in {"ranksvm", "lp", "lambdamart"}
        THEN ret.status = "ok" /\ model_str = ret.arg
        ELSE ret.status = "ConfigurationError"

\* C7, amended: constructing with "ranksvm" or "lp" succeeds; constructing
\* with "lambdamart" or any other string raises ValueError and yields no
\* instance; the strategy of an instance never changes, and every later fit
\* and predict dispatches on it (a fit builds the problem of that strategy,
\* predict never reaches the unknown-strategy branch).
C7_Strategies ==
    [][/\ ret'.op = "init" =>
             IF ret'.arg \in {"ranksvm", "lp"}
             THEN ret'.status = "ok" /\ model_str' = ret'.arg
             ELSE ret'.status = "ValueError" /\ model_str' = NoInstance
       /\ model_str # NoInstance => model_str' = model_str
       /\ (ret'.op = "fit" /\ prob'.kind # "none") =>
             prob'.kind = (IF model_str = "ranksvm" THEN "svc" ELSE "lp")
       /\ (ret'.op = "fit" /\ prob'.kind = "none") => ret'.status = "IndexError"
       /\ ret'.op = "predict" => ret'.status # "ValueError"
      ]_vars

\* the constructor has refused "lambdamart"
C7_Witness ==
    /\ ret.op = "init"
    /\ ret.arg = "lambdamart"
    /\ ret.status = "ValueError"
    /\ model_str = NoInstance

(* ---- C8 ---- *)

\* predict has a weight vector to score the row with
Scored == weights.kind # "unset" /\ ~weights.none /\ ~UnseenGroup(weights, ret.gid)

\* the weight vector predict used for the last call
PredictWeights == weights.w[IF weights.kind = "dict" THEN ret.gid.id ELSE MOCK_GROUP_ID]

\* C8 as stated: the score returned for a row x is the dot product x . w.
C8_AsStated ==
    (ret.op = "predict" /\ Scored) =>
        ret.status = "ok" /\ ret.num = Dot(At(X, ret.row), PredictWeights)

\* C8, amended: for "ranksvm" and "lp" the value predict returns for a row
\* x is the negated dot product -(x . w), w the artifact's weight vector
\* (the vector of the row's group for a grouped artifact), under the single
\* convention that a lower returned value means a better row: a row that
\* training ranks above another by a positive margin gets the lower value.
C8_NegatedDot ==
    /\ (ret.op = "predict" /\ Scored) =>
          /\ ret.status = "ok"
          /\ ret.num = -Dot(At(X, ret.row), PredictWeights)
          /\ ret.den = 1
    /\ (TrainedLP /\ AllInRange) =>
          \A n \in NonDegenerate :
              (MetWithoutSlack(n) /\ JRelation(n) > 0) => ScoreOf(JI(n)) < ScoreOf(JJ(n))

\* predict has returned a nonzero score for a row of a seen group
C8_Witness ==
    /\ ret.op = "predict"
    /\ Scored
    /\ weights.kind = "dict"
    /\ Dot(At(X, ret.row), PredictWeights) # 0
    /\ ret.num = -Dot(At(X, ret.row), PredictWeights)
(* ---- C9 ---- *)

\* every (i, j, relation, importance) replaced by (j, i, -relation, importance)
Mirror(ps) == [n \in 1..Len(ps) |-> <<ps[n][2], ps[n][1], -ps[n][3], ps[n][4]>>]

\* kendall_tau on the mirrored list, same X, group ids and artifact
Mirrored == kendall_tau_result(model_str, weights, X, Mirror(pairs), group_ids)

\* C9 as stated: kendall_tau on the mirrored list returns the same value.
C9_AsStated ==
    Evaluated => Mirrored.status = "ok" /\ Mirrored.num * ret.den = ret.num * Mirrored.den

\* C9, amended: on the mirrored list kendall_tau skips the same judgments;
\* if a non-degenerate judgment has relation > 0 its mirror has a negative
\* relation and the call raises AssertionError; otherwise (every
\* non-degenerate relation is 0) the call returns, the total importance is
\* the same, a judgment with equal scores counts concordant in both lists
\* and a judgment with different scores counts with the opposite sign, so
\* the two values are equal only when those contributions cancel.
C9_Mirrored ==
    Evaluated =>
        IF \E n \in NonDegenerate : JRelation(n) > 0
        THEN Mirrored.status = "AssertionError"
        ELSE /\ Mirrored.status = "ok"
             /\ Mirrored.den = ret.den
             /\ Mirrored.num + ret.num = 2 * ImportanceOf({n \in NonDegenerate : Diff(n) = 0})

\* kendall_tau has returned on relation-0 judgments with different scores,
\* and the mirrored list gives another value
C9_Witness ==
    /\ Evaluated
    /\ \A n \in NonDegenerate : JRelation(n) = 0
    /\ \E n \in NonDegenerate : Diff(n) # 0
    /\ Mirrored.status = "ok"
    /\ Mirrored.num # ret.num

(* ---- C10 ---- *)

\* C10 as stated: two linear-program fits on identical (X, judgments, group
\* ids, C) build the identical problem: same variable names and order, same
\* constraints, same objective, same seed.
C10_AsStated ==
    [][(/\ ret.op = "fit" /\ ret.status = "ok" /\ prob.kind = "lp"
        /\ ret'.op = "fit" /\ ret'.status = "ok" /\ prob'.kind = "lp"
        /\ X' = X /\ pairs' = pairs /\ group_ids' = group_ids)
       => prob' = prob]_vars

(* ---- C11 ---- *)

\* C11 as stated: a linear-program fit whose solver returned without a
\* solution fails with an error, so a fit that returns normally never
\* leaves an artifact read off unset (None) variable values.
C11_AsStated ==
    (ret.op = "fit" /\ model_str = "lp" /\ ret.status = "ok") => ~weights.none

(* ---- C12 ---- *)

\* some judgment of the current list names a row outside 0..N-1
OutsideRows ==
    \E n \in 1..Len(pairs) :
        \/ JI(n) \notin 0..(Len(X) - 1)
        \/ JJ(n) \notin 0..(Len(X) - 1)

\* C12 as stated: fit and kendall_tau given a judgment whose i or j is not
\* in 0..N-1 (negative, or >= N) end in IndexError.
C12_AsStated ==
    (ret.op \in {"fit", "kendall_tau"} /\ OutsideRows) => ret.status = "IndexError"

(* ---- C13 ---- *)

\* the m-th smallest element of the set of naturals S
NthOf(S, m) == CHOOSE n \in S : Cardinality({k \in S : k < n}) = m - 1

\* the group whose weight vector stands for row i
GroupOf(i) == IF group_ids.given THEN At(group_ids.ids, i) ELSE MOCK_GROUP_ID

\* the slack variables of the problem, in creation order
SlackVariables == SelectSeq(prob.variables, LAMBDA v : v.name[1] = "z")

\* the last call was a linear-program fit that built its problem
Reduced == ret.op = "fit" /\ model_str = "lp" /\ prob.kind = "lp"

\* C13: the problem LP.fit built has exactly one judgment constraint and one
\* slack variable with lower bound 0 per non-degenerate judgment, in list
\* order; the constraint of judgment (i, j, relation) is over the weights of
\* group(i) with row X[i] and the weights of group(j) with row X[j], with
\* that relation and that judgment's own slack; the objective weighs each
\* slack by its judgment's importance; and all variable names, the slack
\* names of repeated (i, j) included, are pairwise different.
C13_OneSlackPerJudgment ==
    Reduced =>
        LET rc == RankConstraints(prob)
            zs == SlackVariables
        IN  /\ Len(rc) = Cardinality(NonDegenerate)
            /\ Len(zs) = Cardinality(NonDegenerate)
            /\ Len(prob.objective.slacks) = Cardinality(NonDegenerate)
            /\ \A m \in 1..Len(zs) : zs[m].lowBound = Bound(0)
            /\ \A a, b \in 1..Len(prob.variables) :
                  a # b => prob.variables[a].name # prob.variables[b].name
            /\ \A m \in 1..Cardinality(NonDegenerate) :
                  LET n == NthOf(NonDegenerate, m)
                  IN  /\ rc[m].slack = zs[m].name
                      /\ rc[m].slack[2] = JI(n) /\ rc[m].slack[3] = JJ(n)
                      /\ rc[m].gi = GroupOf(JI(n)) /\ rc[m].xi = At(X, JI(n))
                      /\ rc[m].gj = GroupOf(JJ(n)) /\ rc[m].xj = At(X, JJ(n))
                      /\ rc[m].relation = JRelation(n)
                      /\ prob.objective.slacks[m] = <<zs[m].name, JImportance(n)>>

\* a fit on a list that repeats (0, 1) across two groups built two
\* constraints with two different slacks, the second named with a uuid
C13_Witness ==
    /\ Reduced
    /\ group_ids.given
    /\ Len(pairs) = 2
    /\ JI(1) = 0 /\ JJ(1) = 1 /\ JI(2) = 0 /\ JJ(2) = 1
    /\ NonDegenerate = {1, 2}
    /\ GroupOf(0) # GroupOf(1)
    /\ Len(SlackVariables) = 2
    /\ SlackVariables[1].name = SlackName(0, 1, "")
    /\ SlackVariables[2].name[4] \in UUIDs
    /\ RankConstraints(prob)[2].slack = SlackVariables[2].name

(* ---- C14 ---- *)

\* all weights and abs_w at 0, each slack at the relation of its judgment
ZeroWeights ==
    [nm \in {prob.variables[n].name : n \in 1..Len(prob.variables)} |->
        IF nm[1] = "z"
        THEN LET rc == RankConstraints(prob)
             IN  rc[CHOOSE n \in 1..Len(rc) : rc[n].slack = nm].relation
        ELSE 0]

\* C14: the problem LP.fit built is feasible: with every weight and abs_w at
\* 0 and every slack at its judgment's relation (the relations being >= 0),
\* every judgment constraint, every abs_w >= w and abs_w >= -w constraint
\* and every lower bound holds.
C14_Feasible ==
    (Reduced /\ \A n \in 1..Len(pairs) : JRelation(n) >= 0) =>
        Feasible(prob, ZeroWeights)

\* a problem built from two judgments that no weights can both meet
\* without slack, the first with relation 1
C14_Witness ==
    /\ Reduced
    /\ pairs = << <<0, 1, 1, 1>>, <<1, 0, 0, 2>> >>
    /\ Len(RankConstraints(prob)) = 2
    /\ ZeroWeights[SlackName(0, 1, "")] = 1
    /\ ZeroWeights[SlackName(1, 0, "")] = 0
    /\ Feasible(prob, ZeroWeights)

====
